---- MODULE Spec2Model ----
(***************************************************************************)
(* Model of Prototipos/Prototipo1/views/api_views.py: the HTTP handlers of *)
(* the point-of-sale backend (sessions, products, sales, inventory,        *)
(* reports) over the persisted tables Producto, Venta, ItemVenta,          *)
(* MovimientoInventario and RegistroAuditoria.                             *)
(*                                                                         *)
(* The handlers are in api_views.py.  The controllers they delegate to     *)
(* (ControladorVentas, ControladorInventario, ControladorAutenticacion,    *)
(* ControladorReportes) and the session factory obtener_db are not part of *)
(* the available source; their behaviour is taken from the design          *)
(* document (sections 4, 5 and 7) and is marked as such below.             *)
(*                                                                         *)
(* A handler is one step: between its first query and its commit it awaits *)
(* nothing, and its session (Depends(obtener_db)) is its own.  Concurrent  *)
(* sale requests against the store are the subject of SpecConcurrente.     *)
(* Of a product the model keeps codigo, nombre, precio_venta, costo,       *)
(* stock_actual and activo; categoria, stock_minimo and descripcion are    *)
(* written like nombre and read by no handler's condition.                 *)
(***************************************************************************)
EXTENDS Integers, Sequences, FiniteSets, TLC

\* ------------------------------------------------------------------ bounds
MaxAuditoria == 3       \* audit rows after which nothing but a void may succeed
MaxSesiones == 2        \* sessions live at once in SpecSesiones

\* ------------------------------------------------------- program constants
HTTP_OK == 200
HTTP_CREATED == 201
HTTP_BAD_REQUEST == 400
HTTP_UNAUTHORIZED == 401
HTTP_FORBIDDEN == 403
HTTP_NOT_FOUND == 404
HTTP_CONFLICT == 409
HTTP_ERROR == 500
STOCK_ACTUAL_DEFECTO == 0

\* ------------------------------------------------------------ input domains
ROL_ADMIN == "administradora"
ROL_VENDEDORA == "vendedora"
\* The user table (models.modelos.Usuario): one administrator, one staff user.
Usuarios == { [id |-> 1, rol |-> ROL_ADMIN], [id |-> 2, rol |-> ROL_VENDEDORA] }
Nadie == [usuario_id |-> 0, rol |-> "ninguno"]
SIN_SESION == 0                       \* header session-id absent or empty
\* The session ids that may be live at once; login issues one that is not live.
SessionIds == {1}
SidsPeticion == {SIN_SESION} \cup SessionIds
Codigos == {"A1", "B2"}
ProdIdsPeticion == {1, 2}
VentaIdsPeticion == {1, 2}

\* Request bodies of POST /api/productos: stock_actual is optional (and is
\* taken as sent, whatever its sign), and a body may lack a required key.
DatosCreacion ==
    { [codigo |-> "A1", nombre |-> "Pan", precio_venta |-> 5, costo |-> 2, stock_actual |-> 2],
      [codigo |-> "A1", nombre |-> "Pan", precio_venta |-> 5, costo |-> 2, stock_actual |-> -1],
      [codigo |-> "B2", nombre |-> "Pan", precio_venta |-> 5, costo |-> 2],
      [codigo |-> "B2", nombre |-> "Pan", precio_venta |-> 5] }

\* Request bodies of PUT /api/productos/{id}: complete (with keys the handler
\* does not read: codigo, stock_actual) and lacking costo.
DatosEdicion ==
    { [nombre |-> "Pan integral", precio_venta |-> 7, costo |-> 3,
       codigo |-> "B2", stock_actual |-> 9],
      [nombre |-> "Pan integral", precio_venta |-> 7] }

\* Request bodies of POST /api/ventas: the lines (producto_id, cantidad).
Linea(p, q) == [producto_id |-> p, cantidad |-> q]
DatosVenta ==
    { <<>>, <<Linea(1, 1)>>, <<Linea(1, 3)>>, <<Linea(1, -1)>>, <<Linea(2, 1)>>,
      <<Linea(1, 1), Linea(1, 1)>>, <<Linea(1, 1), Linea(1, 2)>> }

\* Request bodies of POST /api/inventario/movimientos.
DatosMovimiento ==
    { [producto_id |-> 1, tipo_movimiento |-> "entrada", cantidad |-> 1],
      [producto_id |-> 1, tipo_movimiento |-> "salida", cantidad |-> 1],
      [producto_id |-> 1, tipo_movimiento |-> "salida", cantidad |-> 3],
      [producto_id |-> 1, tipo_movimiento |-> "entrada", cantidad |-> -1],
      [producto_id |-> 2, tipo_movimiento |-> "entrada", cantidad |-> 1] }

\* ---------------------------------------------------------------- state
VARIABLES
    usuarios_activos,   \* session id -> [usuario_id, rol] (module global)
    productos,          \* table Producto, indexed by id
    ventas,             \* table Venta with its ItemVenta rows, indexed by id
    movimientos,        \* table MovimientoInventario, in insertion order
    auditoria,          \* table RegistroAuditoria, in insertion order
    resp,               \* the last request and its response
    tx                  \* sale transactions in flight (concurrent handlers)

vars == <<usuarios_activos, productos, ventas, movimientos, auditoria, resp, tx>>
db == <<productos, ventas, movimientos, auditoria>>

Exito(status) == status \in {HTTP_OK, HTTP_CREATED}

\* datos.get(k, d)
Get(datos, k, d) == IF k \in DOMAIN datos THEN datos[k] ELSE d

Tiene(datos, claves) == claves \subseteq DOMAIN datos

\* ------------------------------------------------------------- sessions
\* obtener_usuario_activo: Nadie stands for the 401 it raises.
SesionActiva(sid) == sid # SIN_SESION /\ sid \in DOMAIN usuarios_activos

obtener_usuario_activo(sid) ==
    IF SesionActiva(sid) THEN usuarios_activos[sid] ELSE Nadie

\* What a request and its answer amount to: the endpoint, the status, the
\* session-id header of the request (for login, the session id it answers
\* with), who that header identifies (Nadie: nobody), and the ids of the rows
\* in the answer.
Respuesta(op, status, sid, cuerpo) ==
    [op |-> op, status |-> status, sid |-> sid,
     llamante |-> obtener_usuario_activo(sid), cuerpo |-> cuerpo]

\* The role check dropped: any session passes.
EsAdministradoraSinRol(usuario) == TRUE

\* if usuario['rol'] != 'administradora': raise HTTPException(status_code=403)
EsAdministradora(usuario) == usuario.rol = ROL_ADMIN

\* The status the role check of an administrator-only handler answers with
\* before it touches the database: 401, 403, or 0 to go on.
Autorizar(usuario) ==
    IF usuario = Nadie THEN HTTP_UNAUTHORIZED
    ELSE IF ~EsAdministradora(usuario) THEN HTTP_FORBIDDEN
    ELSE 0

\* The pending changes flushed instead of discarded.
RollbackQueEscribe(persistido, pendiente) == pendiente

\* db.rollback() in the handlers' except blocks: the pending changes of the
\* request's session are discarded.
Rollback(persistido, pendiente) == persistido

\* The audit row of crear_producto pasted into the other operations as it is.
RegistroAuditoriaCopiado(usuario, tipo) ==
    [usuario_id |-> usuario.usuario_id, tipo_accion |-> "creacion_producto"]

\* RegistroAuditoria(usuario_id=usuario['usuario_id'], tipo_accion=...)
RegistroAuditoria(usuario, tipo) ==
    [usuario_id |-> usuario.usuario_id, tipo_accion |-> tipo]


\* ---------------------------------------------------------------- tables
\* Producto(...): the row crear_producto builds; activo is the column default.
Producto(datos) ==
    [codigo |-> datos.codigo, nombre |-> datos.nombre,
     precio_venta |-> datos.precio_venta, costo |-> datos.costo,
     stock_actual |-> Get(datos, "stock_actual", STOCK_ACTUAL_DEFECTO),
     activo |-> TRUE]

ProductoIds == DOMAIN productos

\* The lookup narrowed to the active products, as the listings are.
producto_existente_activo(codigo) ==
    \E i \in ProductoIds : productos[i].activo /\ productos[i].codigo = codigo

\* db.query(Producto).filter(Producto.codigo == codigo).first() is not None
producto_existente(codigo) == \E i \in ProductoIds : productos[i].codigo = codigo

\* db.query(Producto).filter(Producto.id == producto_id).first() is not None
ProductoPorId(id) == id \in ProductoIds

\* The listing without its filter.
ProductosSinFiltro == ProductoIds

\* db.query(Producto).filter(Producto.activo == True)
ProductosActivos == { i \in ProductoIds : productos[i].activo }

\* The attribute assignments of actualizar_producto, in source order; the first
\* key missing from the body raises KeyError and leaves the later ones undone.
CamposEdicion == <<"nombre", "precio_venta", "costo">>

RECURSIVE AsignarCampos(_, _, _)
AsignarCampos(p, datos, k) ==
    IF k > Len(CamposEdicion) THEN [producto |-> p, completo |-> TRUE]
    ELSE IF CamposEdicion[k] \notin DOMAIN datos THEN [producto |-> p, completo |-> FALSE]
    ELSE AsignarCampos([p EXCEPT ![CamposEdicion[k]] = datos[CamposEdicion[k]]], datos, k + 1)

\* A handler that answers without writing.
Rechazar(op, status, sid, cuerpo) ==
    /\ resp' = Respuesta(op, status, sid, cuerpo)
    /\ UNCHANGED <<usuarios_activos, productos, ventas, movimientos, auditoria, tx>>

\* --------------------------------------------------------------- AUTH
\* POST /api/login, issuing its session id out of ids.  autenticar_usuario
\* answers a user row or None; the id is built from the user id and the time
\* of the request, and so is none of the live ones.
login_con(ids, u, credenciales_validas) ==
    IF ~credenciales_validas
    THEN Rechazar("login", HTTP_UNAUTHORIZED, SIN_SESION, {})
    ELSE \E session_id \in ids \ DOMAIN usuarios_activos :
         /\ usuarios_activos' =
                [s \in DOMAIN usuarios_activos \cup {session_id} |->
                    IF s = session_id THEN [usuario_id |-> u.id, rol |-> u.rol]
                    ELSE usuarios_activos[s]]
         /\ resp' = Respuesta("login", HTTP_OK, session_id, {})
         /\ UNCHANGED <<productos, ventas, movimientos, auditoria, tx>>

login(u, credenciales_validas) == login_con(SessionIds, u, credenciales_validas)

\* Every session of the user of sid closed with it.
SinSesionesDelUsuario(sid) ==
    [s \in { t \in DOMAIN usuarios_activos :
                usuarios_activos[t].usuario_id # usuarios_activos[sid].usuario_id } |->
        usuarios_activos[s]]

\* del usuarios_activos[session_id]
SinSesion(sid) == [s \in DOMAIN usuarios_activos \ {sid} |-> usuarios_activos[s]]

\* POST /api/logout
logout(sid) ==
    /\ usuarios_activos' =
           IF SesionActiva(sid) THEN SinSesion(sid) ELSE usuarios_activos
    /\ resp' = Respuesta("logout", HTTP_OK, sid, {})
    /\ UNCHANGED <<productos, ventas, movimientos, auditoria, tx>>

\* ------------------------------------------------------------ PRODUCTOS
\* GET /api/productos: takes no session-id header.
obtener_productos(sid) ==
    Rechazar("obtener_productos", HTTP_OK, sid, ProductosActivos)

\* GET /api/productos/{producto_id}
obtener_producto(producto_id, sid) ==
    IF producto_id \in ProductosActivos
    THEN Rechazar("obtener_producto", HTTP_OK, sid, {producto_id})
    ELSE Rechazar("obtener_producto", HTTP_NOT_FOUND, sid, {})

\* POST /api/productos.  falla: db.commit() raises.
crear_producto(sid, datos) ==
    LET usuario == obtener_usuario_activo(sid)
        auth == Autorizar(usuario)
        op == "crear_producto"
    IN  IF auth # 0 THEN Rechazar(op, auth, sid, {})
        ELSE IF producto_existente(datos.codigo) THEN Rechazar(op, HTTP_CONFLICT, sid, {})
        ELSE IF ~Tiene(datos, {"nombre", "precio_venta", "costo"})
             THEN Rechazar(op, HTTP_ERROR, sid, {})
        ELSE /\ Len(auditoria) < MaxAuditoria
             /\ LET pend_p == Append(productos, Producto(datos))
                    pend_a == Append(auditoria, RegistroAuditoria(usuario, "creacion_producto"))
                IN  \E falla \in BOOLEAN :
                    IF falla
                    THEN /\ productos' = Rollback(productos, pend_p)
                         /\ auditoria' = Rollback(auditoria, pend_a)
                         /\ resp' = Respuesta(op, HTTP_ERROR, sid, {})
                    ELSE /\ productos' = pend_p
                         /\ auditoria' = pend_a
                         /\ resp' = Respuesta(op, HTTP_CREATED, sid, {})
             /\ UNCHANGED <<usuarios_activos, ventas, movimientos, tx>>

\* PUT /api/productos/{producto_id}
actualizar_producto(producto_id, sid, datos) ==
    LET usuario == obtener_usuario_activo(sid)
        auth == Autorizar(usuario)
        op == "actualizar_producto"
    IN  IF auth # 0 THEN Rechazar(op, auth, sid, {})
        ELSE IF ~ProductoPorId(producto_id) THEN Rechazar(op, HTTP_NOT_FOUND, sid, {})
        ELSE /\ Len(auditoria) < MaxAuditoria
             /\ LET asignado == AsignarCampos(productos[producto_id], datos, 1)
                    pend_p == [productos EXCEPT ![producto_id] = asignado.producto]
                    pend_a == Append(auditoria, RegistroAuditoria(usuario, "edicion_producto"))
                IN  IF ~asignado.completo
                    THEN /\ productos' = Rollback(productos, pend_p)
                         /\ auditoria' = auditoria
                         /\ resp' = Respuesta(op, HTTP_ERROR, sid, {})
                    ELSE \E falla \in BOOLEAN :
                    IF falla
                    THEN /\ productos' = Rollback(productos, pend_p)
                         /\ auditoria' = Rollback(auditoria, pend_a)
                         /\ resp' = Respuesta(op, HTTP_ERROR, sid, {})
                    ELSE /\ productos' = pend_p
                         /\ auditoria' = pend_a
                         /\ resp' = Respuesta(op, HTTP_OK, sid, {})
             /\ UNCHANGED <<usuarios_activos, ventas, movimientos, tx>>

\* DELETE /api/productos/{producto_id}: logical deactivation.
eliminar_producto(producto_id, sid) ==
    LET usuario == obtener_usuario_activo(sid)
        auth == Autorizar(usuario)
        op == "eliminar_producto"
    IN  IF auth # 0 THEN Rechazar(op, auth, sid, {})
        ELSE IF ~ProductoPorId(producto_id) THEN Rechazar(op, HTTP_NOT_FOUND, sid, {})
        ELSE /\ Len(auditoria) < MaxAuditoria
             /\ LET pend_p == [productos EXCEPT ![producto_id].activo = FALSE]
                    pend_a == Append(auditoria, RegistroAuditoria(usuario, "eliminacion_producto"))
                IN  \E falla \in BOOLEAN :
                    IF falla
                    THEN /\ productos' = Rollback(productos, pend_p)
                         /\ auditoria' = Rollback(auditoria, pend_a)
                         /\ resp' = Respuesta(op, HTTP_ERROR, sid, {})
                    ELSE /\ productos' = pend_p
                         /\ auditoria' = pend_a
                         /\ resp' = Respuesta(op, HTTP_OK, sid, {})
             /\ UNCHANGED <<usuarios_activos, ventas, movimientos, tx>>


\* ------------------------------------------------ controllers (design doc)
\* The signed stock change a movement row stands for.
CantidadConSigno(m) ==
    IF m.tipo_movimiento \in {"salida", "venta"} THEN -m.cantidad ELSE m.cantidad

MovimientoInventario(producto_id, tipo, cantidad, anterior, nuevo, usuario_id) ==
    [producto_id |-> producto_id, tipo_movimiento |-> tipo, cantidad |-> cantidad,
     stock_anterior |-> anterior, stock_nuevo |-> nuevo, usuario_id |-> usuario_id]

\* ControladorInventario.registrar_movimiento (section 4.1): the product must
\* exist and be active, the quantity be positive and the resulting stock not
\* negative; stock, movement row and audit row are written together.
registrar_movimiento(datos, usuario) ==
    LET id == datos.producto_id
        anterior == productos[id].stock_actual
        nuevo == anterior + CantidadConSigno(datos)
    IN  IF id \notin ProductosActivos THEN [error |-> "Producto no encontrado"]
        ELSE IF datos.cantidad <= 0 THEN [error |-> "Cantidad invalida"]
        ELSE IF nuevo < 0 THEN [error |-> "Stock insuficiente"]
        ELSE [mensaje |-> "Movimiento registrado",
              productos |-> [productos EXCEPT ![id].stock_actual = nuevo],
              movimientos |-> Append(movimientos,
                  MovimientoInventario(id, datos.tipo_movimiento, datos.cantidad,
                                       anterior, nuevo, usuario.usuario_id)),
              auditoria |-> Append(auditoria, RegistroAuditoria(usuario, "movimiento_inventario"))]

\* The lines of a sale, in order, against the stock as decremented so far
\* (section 4.2, steps 2 to 4); any failing line fails the sale as a whole.
RECURSIVE ProcesarLineas(_, _, _, _)
ProcesarLineas(items, k, acc, usuario) ==
    IF acc.error \/ k > Len(items) THEN acc
    ELSE LET id == items[k].producto_id
             q == items[k].cantidad
             p == acc.productos[id]
         IN  IF id \notin DOMAIN acc.productos \/ ~p.activo \/ q <= 0 \/ q > p.stock_actual
             THEN [acc EXCEPT !.error = TRUE]
             ELSE ProcesarLineas(items, k + 1,
                    [error |-> FALSE,
                     productos |-> [acc.productos EXCEPT ![id].stock_actual = p.stock_actual - q],
                     movimientos |-> Append(acc.movimientos,
                         MovimientoInventario(id, "venta", q, p.stock_actual,
                                              p.stock_actual - q, usuario.usuario_id)),
                     items |-> Append(acc.items,
                         [producto_id |-> id, cantidad |-> q,
                          precio_unitario |-> p.precio_venta,
                          subtotal |-> q * p.precio_venta])],
                    usuario)

RECURSIVE SumaSubtotales(_)
SumaSubtotales(items) ==
    IF items = <<>> THEN 0 ELSE items[1].subtotal + SumaSubtotales(Tail(items))

\* The sale as computed against the product rows `prods` the transaction
\* read: the rows as decremented, and the new movement and item rows.
VentaPendiente(prods, datos, usuario) ==
    ProcesarLineas(datos, 1,
        [error |-> FALSE, productos |-> prods, movimientos |-> <<>>, items |-> <<>>],
        usuario)

Venta(usuario, items) ==
    [usuario_id |-> usuario.usuario_id, estado |-> "completada",
     total |-> SumaSubtotales(items), items |-> items]

\* ControladorVentas.registrar_venta (section 4.2).
registrar_venta(datos, usuario) ==
    LET r == VentaPendiente(productos, datos, usuario)
    IN  IF datos = <<>> THEN [error |-> "La venta no tiene items"]
        ELSE IF r.error THEN [error |-> "Producto no disponible o stock insuficiente"]
        ELSE [mensaje |-> "Venta registrada",
              productos |-> r.productos,
              movimientos |-> movimientos \o r.movimientos,
              ventas |-> Append(ventas, Venta(usuario, r.items)),
              auditoria |-> Append(auditoria, RegistroAuditoria(usuario, "registro_venta"))]

\* The restock rows of a voided sale, one per item.
RECURSIVE Reponer(_, _, _, _)
Reponer(items, k, acc, usuario) ==
    IF k > Len(items) THEN acc
    ELSE LET id == items[k].producto_id
             q == items[k].cantidad
             anterior == acc.productos[id].stock_actual
         IN  Reponer(items, k + 1,
                [productos |-> [acc.productos EXCEPT ![id].stock_actual = anterior + q],
                 movimientos |-> Append(acc.movimientos,
                     MovimientoInventario(id, "anulacion", q, anterior, anterior + q,
                                          usuario.usuario_id))],
                usuario)

\* The state check of a void left out.
VentaAnulableSiempre(venta) == TRUE

\* Section 4.2: a sale may be voided from the state completada only.
VentaAnulable(venta) == venta.estado = "completada"

\* ControladorVentas.anular_venta (section 4.2).
anular_venta_controlador(venta_id, usuario) ==
    IF venta_id \notin DOMAIN ventas THEN [error |-> "Venta no encontrada"]
    ELSE IF ~VentaAnulable(ventas[venta_id]) THEN [error |-> "La venta ya fue anulada"]
    ELSE LET r == Reponer(ventas[venta_id].items, 1,
                     [productos |-> productos, movimientos |-> movimientos], usuario)
         IN  [mensaje |-> "Venta anulada",
              productos |-> r.productos,
              movimientos |-> r.movimientos,
              ventas |-> [ventas EXCEPT ![venta_id].estado = "anulada"],
              auditoria |-> Append(auditoria, RegistroAuditoria(usuario, "anulacion_venta"))]

\* if 'error' in resultado: raise HTTPException(status_code=400, ...)
EsError(resultado) == "error" \in DOMAIN resultado

\* --------------------------------------------------------------- VENTAS
\* GET /api/ventas, /api/ventas/consolidado, /api/ventas/{venta_id}: none of
\* them takes a session-id header.
obtener_ventas(sid) ==
    Rechazar("obtener_ventas", HTTP_OK, sid, DOMAIN ventas)

obtener_consolidado_ventas(sid) ==
    Rechazar("obtener_consolidado_ventas", HTTP_OK, sid,
             { v \in DOMAIN ventas : ventas[v].estado = "completada" })

obtener_venta(venta_id, sid) ==
    IF venta_id \in DOMAIN ventas
    THEN Rechazar("obtener_venta", HTTP_OK, sid, {venta_id})
    ELSE Rechazar("obtener_venta", HTTP_NOT_FOUND, sid, {})

\* POST /api/ventas
crear_venta(sid, datos) ==
    LET usuario == obtener_usuario_activo(sid)
        op == "crear_venta"
        resultado == registrar_venta(datos, usuario)
    IN  IF usuario = Nadie THEN Rechazar(op, HTTP_UNAUTHORIZED, sid, {})
        ELSE IF EsError(resultado) THEN Rechazar(op, HTTP_BAD_REQUEST, sid, {})
        ELSE /\ Len(auditoria) < MaxAuditoria
             /\ productos' = resultado.productos
             /\ movimientos' = resultado.movimientos
             /\ ventas' = resultado.ventas
             /\ auditoria' = resultado.auditoria
             /\ resp' = Respuesta(op, HTTP_CREATED, sid, {})
             /\ UNCHANGED <<usuarios_activos, tx>>

\* PATCH /api/ventas/{venta_id}
anular_venta(venta_id, sid) ==
    LET usuario == obtener_usuario_activo(sid)
        auth == Autorizar(usuario)
        op == "anular_venta"
        resultado == anular_venta_controlador(venta_id, usuario)
    IN  IF auth # 0 THEN Rechazar(op, auth, sid, {})
        ELSE IF EsError(resultado) THEN Rechazar(op, HTTP_BAD_REQUEST, sid, {venta_id})
        ELSE /\ productos' = resultado.productos
             /\ movimientos' = resultado.movimientos
             /\ ventas' = resultado.ventas
             /\ auditoria' = resultado.auditoria
             /\ resp' = Respuesta(op, HTTP_OK, sid, {venta_id})
             /\ UNCHANGED <<usuarios_activos, tx>>

\* ------------------------------------------------------------ INVENTARIO
\* GET /api/inventario/productos, /alertas, /historial: no session-id header.
obtener_productos_inventario(sid) ==
    Rechazar("obtener_productos_inventario", HTTP_OK, sid, ProductosActivos)

obtener_alertas_inventario(sid) ==
    Rechazar("obtener_alertas_inventario", HTTP_OK, sid,
             { i \in ProductosActivos : productos[i].stock_actual <= 0 })

obtener_historial_inventario(sid) ==
    Rechazar("obtener_historial_inventario", HTTP_OK, sid, DOMAIN movimientos)

\* POST /api/inventario/movimientos
registrar_movimiento_inventario(sid, datos) ==
    LET usuario == obtener_usuario_activo(sid)
        op == "registrar_movimiento_inventario"
        resultado == registrar_movimiento(datos, usuario)
    IN  IF usuario = Nadie THEN Rechazar(op, HTTP_UNAUTHORIZED, sid, {})
        ELSE IF EsError(resultado) THEN Rechazar(op, HTTP_BAD_REQUEST, sid, {})
        ELSE /\ Len(auditoria) < MaxAuditoria
             /\ productos' = resultado.productos
             /\ movimientos' = resultado.movimientos
             /\ auditoria' = resultado.auditoria
             /\ resp' = Respuesta(op, HTTP_CREATED, sid, {})
             /\ UNCHANGED <<usuarios_activos, ventas, tx>>

\* -------------------------------------------------------------- REPORTES
\* GET /api/reportes/...: no session-id header; the figures are the
\* controller's and are not modelled.
obtener_balance_economico(sid) ==
    Rechazar("obtener_balance_economico", HTTP_OK, sid, {})

obtener_indicadores_ventas(sid) ==
    Rechazar("obtener_indicadores_ventas", HTTP_OK, sid, {})

obtener_productos_mas_vendidos(sid) ==
    Rechazar("obtener_productos_mas_vendidos", HTTP_OK, sid, {})

\* ------------------------------------------- concurrent sale requests
\* Section 5: a sale is one transaction of the store; its stock check and its
\* decrement are in that transaction, and a transaction that read a product
\* row another transaction has since changed is aborted, not committed.
Manejadores == {"h1", "h2"}
Libre == [fase |-> "libre"]

\* The product rows the lines of a sale touch.
ProductosDe(datos) == { datos[k].producto_id : k \in DOMAIN datos }

\* crear_venta up to the stock check: the session, the body, and the rows read.
venta_inicia(h, sid, datos) ==
    LET usuario == obtener_usuario_activo(sid)
        op == "crear_venta"
        r == VentaPendiente(productos, datos, usuario)
    IN  /\ tx[h] = Libre
        /\ IF usuario = Nadie
           THEN /\ resp' = Respuesta(op, HTTP_UNAUTHORIZED, sid, {})
                /\ UNCHANGED tx
           ELSE IF datos = <<>> \/ r.error
           THEN /\ resp' = Respuesta(op, HTTP_BAD_REQUEST, sid, {})
                /\ UNCHANGED tx
           ELSE /\ tx' = [tx EXCEPT ![h] =
                            [fase |-> "validada", usuario |-> usuario, datos |-> datos,
                             visto |-> productos]]
                /\ resp' = resp
        /\ UNCHANGED <<usuarios_activos, productos, ventas, movimientos, auditoria>>

\* A store that commits whatever the transaction read.
ConflictoSinDetectar(t) == FALSE

\* The store's conflict detection at commit.
Conflicto(t) == \E id \in ProductosDe(t.datos) : productos[id] # t.visto[id]

\* crear_venta from the decrement to the commit: the rows as computed from the
\* rows read are written, or the transaction is aborted and nothing is.
venta_confirma(h) ==
    LET t == tx[h]
        op == "crear_venta"
        r == VentaPendiente(t.visto, t.datos, t.usuario)
    IN  /\ t # Libre
        /\ tx' = [tx EXCEPT ![h] = Libre]
        /\ IF Conflicto(t)
           THEN /\ resp' = [op |-> op, status |-> HTTP_ERROR, llamante |-> t.usuario, cuerpo |-> {}]
                /\ UNCHANGED <<productos, ventas, movimientos, auditoria>>
           ELSE /\ Len(auditoria) < MaxAuditoria
                /\ productos' = [id \in DOMAIN productos |->
                                    IF id \in ProductosDe(t.datos) THEN r.productos[id]
                                    ELSE productos[id]]
                /\ movimientos' = movimientos \o r.movimientos
                /\ ventas' = Append(ventas, Venta(t.usuario, r.items))
                /\ auditoria' = Append(auditoria, RegistroAuditoria(t.usuario, "registro_venta"))
                /\ resp' = [op |-> op, status |-> HTTP_CREATED, llamante |-> t.usuario, cuerpo |-> {}]
        /\ UNCHANGED usuarios_activos

\* ------------------------------------------------------- specification
Init ==
    /\ usuarios_activos = <<>>
    /\ productos = <<>>
    /\ ventas = <<>>
    /\ movimientos = <<>>
    /\ auditoria = <<>>
    /\ resp = Respuesta("inicio", HTTP_OK, SIN_SESION, {})
    /\ tx = [h \in Manejadores |-> Libre]

Next ==
    \/ \E u \in Usuarios, ok \in BOOLEAN : login(u, ok)
    \/ \E sid \in SidsPeticion : logout(sid)
    \/ \E sid \in SidsPeticion : obtener_productos(sid)
    \/ \E sid \in SidsPeticion, id \in ProdIdsPeticion : obtener_producto(id, sid)
    \/ \E sid \in SidsPeticion, d \in DatosCreacion : crear_producto(sid, d)
    \/ \E sid \in SidsPeticion, id \in ProdIdsPeticion, d \in DatosEdicion :
          actualizar_producto(id, sid, d)
    \/ \E sid \in SidsPeticion, id \in ProdIdsPeticion : eliminar_producto(id, sid)
    \/ \E sid \in SidsPeticion, d \in DatosVenta : crear_venta(sid, d)
    \/ \E sid \in SidsPeticion, id \in VentaIdsPeticion : anular_venta(id, sid)
    \/ \E sid \in SidsPeticion : obtener_productos_inventario(sid)
    \/ \E sid \in SidsPeticion, d \in DatosMovimiento : registrar_movimiento_inventario(sid, d)

\* The handlers that write, with the session handlers and the product reads.
Spec == Init /\ [][Next]_vars

\* The same with the remaining read-only handlers, which write nothing.
NextConsultas ==
    \/ Next
    \/ \E sid \in SidsPeticion : obtener_ventas(sid)
    \/ \E sid \in SidsPeticion : obtener_consolidado_ventas(sid)
    \/ \E sid \in SidsPeticion, id \in VentaIdsPeticion : obtener_venta(id, sid)
    \/ \E sid \in SidsPeticion : obtener_alertas_inventario(sid)
    \/ \E sid \in SidsPeticion : obtener_historial_inventario(sid)
    \/ \E sid \in SidsPeticion : obtener_balance_economico(sid)
    \/ \E sid \in SidsPeticion : obtener_indicadores_ventas(sid)
    \/ \E sid \in SidsPeticion : obtener_productos_mas_vendidos(sid)

SpecConsultas == Init /\ [][NextConsultas]_vars

\* The program with its sale requests running concurrently.
NextConcurrente ==
    \/ \E u \in Usuarios, ok \in BOOLEAN : login(u, ok)
    \/ \E sid \in SidsPeticion : logout(sid)
    \/ \E sid \in SidsPeticion, d \in DatosCreacion : crear_producto(sid, d)
    \/ \E h \in Manejadores, sid \in SidsPeticion, d \in DatosVenta : venta_inicia(h, sid, d)
    \/ \E h \in Manejadores : venta_confirma(h)

SpecConcurrente == Init /\ [][NextConcurrente]_vars

\* The session handlers with several sessions live at once, and two of the
\* handlers that ask for a session: one for the administrator, one for anyone.
SessionIdsSesiones == 1..MaxSesiones
SidsPeticionSesiones == {SIN_SESION} \cup SessionIdsSesiones

NextSesiones ==
    \/ \E u \in Usuarios, ok \in BOOLEAN : login_con(SessionIdsSesiones, u, ok)
    \/ \E sid \in SidsPeticionSesiones : logout(sid)
    \/ \E sid \in SidsPeticionSesiones, d \in DatosCreacion : crear_producto(sid, d)
    \/ \E sid \in SidsPeticionSesiones, d \in DatosVenta : crear_venta(sid, d)

SpecSesiones == Init /\ [][NextSesiones]_vars


\* ================================================================ claims
OpsAdministradora ==
    {"crear_producto", "actualizar_producto", "eliminar_producto", "anular_venta"}

OpsOtras ==
    {"obtener_productos", "obtener_producto", "obtener_ventas",
     "obtener_consolidado_ventas", "obtener_venta", "crear_venta",
     "obtener_productos_inventario", "obtener_alertas_inventario",
     "obtener_historial_inventario", "registrar_movimiento_inventario",
     "obtener_balance_economico", "obtener_indicadores_ventas",
     "obtener_productos_mas_vendidos"}

OpsMutantes ==
    {"crear_producto", "actualizar_producto", "eliminar_producto",
     "registrar_movimiento_inventario", "crear_venta", "anular_venta"}

\* The action type that identifies each mutating operation in the audit table.
TipoDe(op) ==
    CASE op = "crear_producto" -> "creacion_producto"
      [] op = "actualizar_producto" -> "edicion_producto"
      [] op = "eliminar_producto" -> "eliminacion_producto"
      [] op = "registrar_movimiento_inventario" -> "movimiento_inventario"
      [] op = "crear_venta" -> "registro_venta"
      [] op = "anular_venta" -> "anulacion_venta"

\* The movement rows of product p, in insertion order.
MovimientosDe(p) ==
    LET EsDe(m) == m.producto_id = p IN SelectSeq(movimientos, EsDe)

RECURSIVE SumaConSigno(_)
SumaConSigno(ms) ==
    IF ms = <<>> THEN 0 ELSE CantidadConSigno(ms[1]) + SumaConSigno(Tail(ms))

\* ---- C1
\* C1: a request to one of the four administrator-only operations whose
\* session-id header identifies nobody or a user whose role is not
\* administradora is answered 401 (nobody) or 403 (another role), and the
\* step leaves products, sales, movements and audit rows as they were.
C1_SoloAdministradora ==
    [][ (resp'.op \in OpsAdministradora /\ resp'.llamante.rol # ROL_ADMIN)
        => /\ resp'.status = (IF resp'.llamante = Nadie THEN HTTP_UNAUTHORIZED
                              ELSE HTTP_FORBIDDEN)
           /\ db' = db ]_vars

\* A staff session is refused an administrator-only operation on a database
\* that already holds products and a sale.
C1_Testigo ==
    /\ resp.op \in OpsAdministradora
    /\ resp.llamante.rol = ROL_VENDEDORA
    /\ resp.status = HTTP_FORBIDDEN
    /\ Len(productos) > 0
    /\ Len(ventas) > 0

\* ---- C2
\* C2: no operation other than the four administrator-only ones answers with
\* a result to a request whose session-id header is absent or not active.
C2_OtrasRequierenSesion ==
    (resp.op \in OpsOtras /\ resp.llamante = Nadie) => ~Exito(resp.status)

\* ---- C3
\* C3: the stock of every product equals the sum of the signed quantities of
\* the movement rows recorded for it.
C3_StockEsSumaDeMovimientos ==
    \A p \in DOMAIN productos :
        productos[p].stock_actual = SumaConSigno(MovimientosDe(p))

\* ---- C4
\* C4: the stock of every product is never negative.
C4_StockNoNegativo ==
    \A p \in DOMAIN productos : productos[p].stock_actual >= 0

\* ---- C5
\* C5: a step of one of the six mutating operations that succeeds appends
\* exactly one audit row, with the caller's user id and the action type of the
\* operation, whatever the number of lines of a sale; one that fails appends
\* none; and no step of any operation changes or removes an audit row.
C5_UnaAuditoriaPorOperacion ==
    [][ /\ (resp'.op \in OpsMutantes /\ Exito(resp'.status))
           => auditoria' = Append(auditoria,
                  [usuario_id |-> resp'.llamante.usuario_id,
                   tipo_accion |-> TipoDe(resp'.op)])
        /\ (resp'.op \in OpsMutantes /\ ~Exito(resp'.status)) => auditoria' = auditoria
        /\ Len(auditoria') >= Len(auditoria)
        /\ SubSeq(auditoria', 1, Len(auditoria)) = auditoria ]_vars

\* A sale of two lines by the staff user has been registered, with one audit
\* row for the sale after the one of the product's creation.
C5_Testigo ==
    /\ resp.op = "crear_venta"
    /\ resp.status = HTTP_CREATED
    /\ Len(ventas) = 1
    /\ Len(ventas[1].items) = 2
    /\ ventas[1].usuario_id = 2
    /\ Len(auditoria) = 2

\* ---- C6
\* C6: with sale requests running concurrently, the movement rows of every
\* product form one chain: each row's stock-after is its stock-before changed
\* by its signed quantity, each row starts from the stock the previous row
\* left (no sale is computed from a stale stock), the product's stock is the
\* stock the last row left (no lost update), and no sale leaves a negative
\* stock (the completed sales never sell more than was available).
C6_VentasSerializadas ==
    \A p \in DOMAIN productos :
        LET ms == MovimientosDe(p)
        IN  /\ \A k \in 1..Len(ms) :
                  /\ ms[k].stock_nuevo = ms[k].stock_anterior + CantidadConSigno(ms[k])
                  /\ ms[k].tipo_movimiento = "venta" => ms[k].stock_nuevo >= 0
            /\ \A k \in 2..Len(ms) : ms[k].stock_anterior = ms[k - 1].stock_nuevo
            /\ Len(ms) > 0 =>
                  /\ productos[p].stock_actual = ms[Len(ms)].stock_nuevo
                  /\ productos[p].stock_actual = ms[1].stock_anterior + SumaConSigno(ms)

\* A sale has committed while another request, which had checked the stock of
\* the same product before that commit, is still to decrement it.
C6_Testigo ==
    /\ Len(ventas) >= 1
    /\ \E h \in Manejadores :
          /\ tx[h] # Libre
          /\ \E id \in ProductosDe(tx[h].datos) :
                productos[id].stock_actual # tx[h].visto[id].stock_actual

RECURSIVE ItemsAnulados(_)
ItemsAnulados(vs) ==
    IF vs = <<>> THEN 0
    ELSE (IF vs[1].estado = "anulada" THEN Len(vs[1].items) ELSE 0) + ItemsAnulados(Tail(vs))

ReposicionesUnaVez ==
    LET EsReposicion(m) == m.tipo_movimiento = "anulacion"
    IN  Len(SelectSeq(movimientos, EsReposicion)) = ItemsAnulados(ventas)

CodigosUnicos ==
    \A i, j \in DOMAIN productos : i # j => productos[i].codigo # productos[j].codigo

\* C9: no two products share a code; a step that creates a product creates
\* one whose code no existing product has, active or not; a creation answered
\* with a conflict creates nothing; and no step changes a product's code.
C9_CodigoUnico ==
    [][ /\ CodigosUnicos'
        /\ \A i \in DOMAIN productos :
              i \in DOMAIN productos' /\ productos'[i].codigo = productos[i].codigo
        /\ \A n \in DOMAIN productos' \ DOMAIN productos :
              \A i \in DOMAIN productos : productos[i].codigo # productos'[n].codigo
        /\ (resp'.op = "crear_producto" /\ resp'.status = HTTP_CONFLICT) => db' = db ]_vars

\* The creation of a product with the code of the only product there is, a
\* deactivated one, has been refused with a conflict.
C9_Testigo ==
    /\ resp.op = "crear_producto"
    /\ resp.status = HTTP_CONFLICT
    /\ Len(productos) = 1
    /\ ~productos[1].activo

\* ---- C10
\* C10: no step removes a product; a successful deactivation changes nothing
\* but the active flag of one product, to false; the product listing, the
\* inventory listing and the lookup by id answer with active products only
\* (the listings with all of them); and every product a sale item or a
\* movement row refers to is still there.
C10_DesactivacionLogica ==
    [][ /\ DOMAIN productos \subseteq DOMAIN productos'
        /\ (resp'.op = "eliminar_producto" /\ Exito(resp'.status))
           => /\ \E id \in DOMAIN productos :
                    productos' = [productos EXCEPT ![id].activo = FALSE]
              /\ ventas' = ventas
              /\ movimientos' = movimientos
        /\ (resp'.op \in {"obtener_productos", "obtener_productos_inventario"})
           => resp'.cuerpo = { i \in DOMAIN productos' : productos'[i].activo }
        /\ (resp'.op = "obtener_producto" /\ Exito(resp'.status))
           => \A i \in resp'.cuerpo : i \in DOMAIN productos' /\ productos'[i].activo
        /\ \A k \in DOMAIN movimientos' : movimientos'[k].producto_id \in DOMAIN productos'
        /\ \A v \in DOMAIN ventas' : \A k \in DOMAIN ventas'[v].items :
              ventas'[v].items[k].producto_id \in DOMAIN productos' ]_vars

\* The product listing has left out a deactivated product that movement rows
\* still refer to.
C10_Testigo ==
    /\ resp.op = "obtener_productos"
    /\ \E i \in DOMAIN productos :
          /\ ~productos[i].activo
          /\ i \notin resp.cuerpo
          /\ \E k \in DOMAIN movimientos : movimientos[k].producto_id = i

\* ---- C11
\* The handlers that call obtener_usuario_activo.
OpsConSesion == OpsMutantes

\* C11: a handler that asks for a session answers 401 exactly when the
\* session id of the request is not, at that moment, one that a successful
\* login issued and no logout has closed since; and that set of ids changes
\* in two ways only: a successful login adds the id it answers with, storing
\* the user's id and role under it and leaving the other sessions as they
\* are, and a logout, which always answers 200, removes the id it is given
\* (nothing, if that id is absent, unknown or closed already) and leaves
\* every other session, those of the same user included, with its user id
\* and role.
C11_CicloDeSesion ==
    [][ LET r == resp'
            antes == DOMAIN usuarios_activos
            despues == DOMAIN usuarios_activos'
        IN  /\ r.op \in OpsConSesion =>
                   ((r.status # HTTP_UNAUTHORIZED) <=> (r.sid \in antes))
            /\ (r.op = "login" /\ Exito(r.status)) =>
                   /\ despues = antes \cup {r.sid}
                   /\ r.sid # SIN_SESION
                   /\ \E u \in Usuarios :
                         usuarios_activos'[r.sid] = [usuario_id |-> u.id, rol |-> u.rol]
                   /\ \A s \in antes \ {r.sid} : usuarios_activos'[s] = usuarios_activos[s]
            /\ r.op = "logout" =>
                   /\ r.status = HTTP_OK
                   /\ despues = antes \ {r.sid}
                   /\ \A s \in despues : usuarios_activos'[s] = usuarios_activos[s]
            /\ (r.op \notin {"login", "logout"} \/ ~Exito(r.status)) =>
                   usuarios_activos' = usuarios_activos
      ]_vars

\* C11 witness: a logout has just closed a live session, that id is no longer
\* accepted, and another session of the same user is still open.
C11_Testigo ==
    /\ resp.op = "logout"
    /\ resp.llamante # Nadie
    /\ resp.sid \notin DOMAIN usuarios_activos
    /\ \E s \in DOMAIN usuarios_activos : usuarios_activos[s] = resp.llamante

====
